---- MODULE Spec2Model ----
(***************************************************************************)
(* Model of mypy/plugins/functools.py: the plugin that completes a class   *)
(* decorated with functools.total_ordering.  The class's MRO is a sequence *)
(* of symbol tables (closest class first, object last); a run of the       *)
(* callback scans it, selects a root comparison method and adds the        *)
(* missing ordering methods to the class.                                  *)
(***************************************************************************)
EXTENDS Integers, Sequences, FiniteSets, Bags, TLC

\* Bounds of the model.
MaxMro == 3        \* longest MRO, object included
MaxDecls == 2      \* most ordering-method declarations in the initial MRO
MaxArgs == 4       \* longest parameter list given to find_other_type

VARIABLES
    python_version,      \* ctx.api.options.python_version
    mro,                 \* ctx.cls.info.mro: sequence of cls.names tables
    before,              \* the MRO as the last run of the callback found it
    scanned,             \* whether the last run called _analyze_class
    comparison_methods,  \* the dict the last run/_analyze_class built
    root,                \* the root name the last run selected
    calls,               \* bag of add_method_to_class calls of the last run
    fails,               \* ctx.api.fail messages of the last run
    method,              \* the _MethodInfo given to _find_other_type
    other_arg            \* the type _find_other_type returned

vars == <<python_version, mro, before, scanned, comparison_methods, root,
          calls, fails, method, other_arg>>

----------------------------------------------------------------------------
\* Names and kinds

ORDERING_METHODS == {"__lt__", "__le__", "__gt__", "__ge__"}

ARG_POS == "ARG_POS"
ARG_OPT == "ARG_OPT"
ARG_STAR == "ARG_STAR"
ARG_NAMED == "ARG_NAMED"
ARG_STAR2 == "ARG_STAR2"
ArgKinds == {ARG_POS, ARG_OPT, ARG_STAR, ARG_NAMED, ARG_STAR2}

\* Python's None
NoneVal == [tag |-> "None"]

----------------------------------------------------------------------------
\* Types (mypy.types)

Instance(n) == [tag |-> "Instance", name |-> n]
UnboundType(n) == [tag |-> "Unbound", name |-> n]
AnyType(of) == [tag |-> "Any", type_of_any |-> of]
TypeAliasType(t) == [tag |-> "Alias", target |-> t]
TypeVarType(i) == [tag |-> "TypeVar", id |-> i]
CallableType(kinds, types, ret) ==
    [tag |-> "Callable", arg_kinds |-> kinds, arg_types |-> types, ret_type |-> ret]

implementation_artifact == "implementation_artifact"
explicit == "explicit"

\* ctx.api.named_type('__builtins__.bool')
bool_type == Instance("builtins.bool")
int_type == Instance("builtins.int")
str_type == Instance("builtins.str")
self_type == Instance("Self")

\* get_proper_type: expands a type alias to its target
get_proper_type(t) == IF t.tag = "Alias" THEN t.target ELSE t

IsCallableType(t) == t.tag = "Callable"

\* str.split('.'): the components of a name, a sequence of characters
RECURSIVE split(_, _, _)
split(s, i, cur) ==
    IF i > Len(s) THEN <<cur>>
    ELSE IF s[i] = "." THEN <<cur>> \o split(s, i + 1, <<>>)
    ELSE split(s, i + 1, Append(cur, s[i]))

\* proper_ret_type.name.split('.')[-1]
LastComponent(s) == LET parts == split(s, 1, <<>>) IN parts[Len(parts)]

----------------------------------------------------------------------------
\* Symbol table nodes (mypy.nodes): FuncItem, Var, or anything else

FuncItem(static, t) ==
    [kind |-> "FuncItem", is_static |-> static, type |-> t, plugin_generated |-> FALSE]
Var(static, t) ==
    [kind |-> "Var", is_static |-> static, type |-> t, plugin_generated |-> FALSE]
Decorator ==
    [kind |-> "Decorator", is_static |-> FALSE, type |-> NoneVal, plugin_generated |-> FALSE]

MethodInfo(static, t) == [is_static |-> static, type |-> t]

\* truth value of an Optional[_MethodInfo]: None is false, a named tuple of
\* two fields is true
Truthy(m) == m # NoneVal

----------------------------------------------------------------------------
\* _analyze_class

\* lines 92-103: the entry recorded for a declared node
EntryOf(node) ==
    IF node.kind = "FuncItem" /\ IsCallableType(node.type)
    THEN MethodInfo(node.is_static, node.type)
    ELSE IF node.kind = "Var" /\ IsCallableType(get_proper_type(node.type))
    THEN MethodInfo(node.is_static, get_proper_type(node.type))
    ELSE NoneVal

\* mutant: the check `name not in comparison_methods` is lost, a farther class wins
ScanClass_FartherWins(names, cm) ==
    [n \in DOMAIN cm \cup (ORDERING_METHODS \cap DOMAIN names) |->
        IF n \in DOMAIN names THEN EntryOf(names[n]) ELSE cm[n]]

\* lines 90-103: one class of the MRO; a name already recorded is kept
ScanClass(names, cm) ==
    [n \in DOMAIN cm \cup (ORDERING_METHODS \cap DOMAIN names) |->
        IF n \in DOMAIN cm THEN cm[n] ELSE EntryOf(names[n])]

\* mutant: the whole MRO is scanned, object included
ScannedPart_WholeMro(chain) == 1 .. Len(chain)

\* ctx.cls.info.mro[:-1]
ScannedPart(chain) == 1 .. (Len(chain) - 1)

RECURSIVE ScanFrom(_, _, _)
ScanFrom(chain, i, cm) ==
    IF i \notin ScannedPart(chain) THEN cm
    ELSE ScanFrom(chain, i + 1, ScanClass(chain[i], cm))

EmptyDict == [n \in {} |-> NoneVal]

analyze_class(chain) == ScanFrom(chain, 1, EmptyDict)

----------------------------------------------------------------------------
\* _find_other_type

RECURSIVE Walk(_, _, _, _, _)
Walk(kinds, types, i, cur_pos_arg, first_arg_pos) ==
    IF i > Len(kinds) \/ i > Len(types) THEN NoneVal
    ELSE IF kinds[i] \in {ARG_POS, ARG_OPT}
    THEN IF cur_pos_arg = first_arg_pos THEN types[i]
         ELSE Walk(kinds, types, i + 1, cur_pos_arg + 1, first_arg_pos)
    ELSE IF kinds[i] # ARG_STAR2 THEN types[i]
    ELSE Walk(kinds, types, i + 1, cur_pos_arg, first_arg_pos)

\* mutant: is_static is ignored
FirstArgPos_AlwaysOne(m) == 1

FirstArgPos(m) == IF m.is_static THEN 0 ELSE 1

find_other_type(m) ==
    LET other == Walk(m.type.arg_kinds, m.type.arg_types, 1, 0, FirstArgPos(m))
    IN IF other = NoneVal THEN AnyType(implementation_artifact) ELSE other

----------------------------------------------------------------------------
\* functools_total_ordering_maker_callback

\* Python's ordering of tuples of integers (and of strings, by code point)
RECURSIVE LexLess(_, _)
LexLess(a, b) ==
    IF b = <<>> THEN FALSE
    ELSE IF a = <<>> THEN TRUE
    ELSE IF a[1] # b[1] THEN a[1] < b[1]
    ELSE LexLess(Tail(a), Tail(b))

\* the code points of the characters of an ordering method's name
CodePoints(k) ==
    CASE k = "__lt__" -> <<95, 95, 108, 116, 95, 95>>
      [] k = "__le__" -> <<95, 95, 108, 101, 95, 95>>
      [] k = "__gt__" -> <<95, 95, 103, 116, 95, 95>>
      [] k = "__ge__" -> <<95, 95, 103, 101, 95, 95>>

BoolAsInt(b) == IF b THEN 1 ELSE 0

\* line 40: key=lambda k: (comparison_methods[k] is None, k)
RootKey(cm, k) == <<BoolAsInt(cm[k] = NoneVal), CodePoints(k)>>

KeyLess(x, y) == x[1] < y[1] \/ (x[1] = y[1] /\ LexLess(x[2], y[2]))

\* line 40: max(comparison_methods, key=...)
SelectRoot(cm) ==
    CHOOSE k \in DOMAIN cm :
        \A j \in DOMAIN cm : j = k \/ KeyLess(RootKey(cm, j), RootKey(cm, k))

\* mutant: the root's return type is not looked at
ReturnType_AlwaysBool(root_method) == bool_type

\* lines 47-53
ReturnType(root_method) ==
    IF root_method.type.ret_type # bool_type
    THEN LET proper_ret_type == get_proper_type(root_method.type.ret_type)
         IN IF ~(proper_ret_type.tag = "Unbound"
                 /\ LastComponent(proper_ret_type.name) = <<"b", "o", "o", "l">>)
            THEN AnyType(implementation_artifact)
            ELSE bool_type
    ELSE bool_type

\* line 58: [Argument(Var('other', other_type), other_type, None, ARG_POS)]
OtherArgs(other_type) == <<[name |-> "other", type |-> other_type, kind |-> ARG_POS]>>

\* comparison_methods.get(additional_op)
DictGet(cm, k) == IF k \in DOMAIN cm THEN cm[k] ELSE NoneVal

\* mutant: the method is added to the first base class
AddCall_OnBase(op, other_type, ret_type) ==
    [cls |-> 2, name |-> op, args |-> OtherArgs(other_type), ret_type |-> ret_type]

\* line 59: the call made for one additional_op, on ctx.cls (first of the MRO)
AddCall(op, other_type, ret_type) ==
    [cls |-> 1, name |-> op, args |-> OtherArgs(other_type), ret_type |-> ret_type]

\* mutant: every ordering method is added, declared or not
NeedsMethod_Always(cm, op) == TRUE

\* line 57
NeedsMethod(cm, op) == ~Truthy(DictGet(cm, op))

\* lines 54-59: the loop over _ORDERING_METHODS
RECURSIVE Synthesize(_, _, _, _, _)
Synthesize(todo, cm, other_type, ret_type, made) ==
    IF todo = {} THEN made
    ELSE LET additional_op == CHOOSE op \in todo : TRUE
         IN Synthesize(todo \ {additional_op}, cm, other_type, ret_type,
                IF NeedsMethod(cm, additional_op)
                THEN made (+) SetToBag({AddCall(additional_op, other_type, ret_type)})
                ELSE made)

UnsupportedMsg == "\"functools.total_ordering\" is not supported in Python 2"
NoOrderingMsg == "No ordering operation defined when using \"functools.total_ordering\": < > <= >="
NoRoot == "no root"

\* mutant: the gate compares with the wrong version
Unsupported_BelowTwo(version) == LexLess(version, <<2>>)

\* line 28
Unsupported(version) == LexLess(version, <<3>>)

\* lines 28-30: the version gate fails
GateRun ==
    [scanned |-> FALSE, cm |-> EmptyDict, root |-> NoRoot,
     calls |-> EmptyBag, fails |-> <<UnsupportedMsg>>]

\* lines 33-37: no comparison method found
NoMethodsRun(cm) ==
    [scanned |-> TRUE, cm |-> cm, root |-> NoRoot,
     calls |-> EmptyBag, fails |-> <<NoOrderingMsg>>]

\* mutant: an unanalysable root is reported as no ordering operation
SilentRun_Reports(cm, r) ==
    [scanned |-> TRUE, cm |-> cm, root |-> r, calls |-> EmptyBag, fails |-> <<NoOrderingMsg>>]

\* lines 42-44: the root cannot be analysed
SilentRun(cm, r) ==
    [scanned |-> TRUE, cm |-> cm, root |-> r, calls |-> EmptyBag, fails |-> <<>>]

\* lines 46-59: the missing methods are added after the root
SynthesisRun(cm, r) ==
    [scanned |-> TRUE, cm |-> cm, root |-> r,
     calls |-> Synthesize(ORDERING_METHODS, cm, find_other_type(cm[r]),
                          ReturnType(cm[r]), EmptyBag),
     fails |-> <<>>]

\* the whole callback, as the record of what it did
CallbackRun(version, chain) ==
    IF Unsupported(version) THEN GateRun
    ELSE LET cm == analyze_class(chain) IN
      IF DOMAIN cm = {} THEN NoMethodsRun(cm)
      ELSE LET r == SelectRoot(cm) IN
        IF ~Truthy(cm[r]) THEN SilentRun(cm, r)
        ELSE SynthesisRun(cm, r)

\* mypy.plugins.common.add_method_to_class: the class gets a generated method
\* (self, *args) -> return_type under the name
add_method_to_class(names, name, args, return_type) ==
    [n \in DOMAIN names \cup {name} |->
        IF n = name
        THEN [kind |-> "FuncItem", is_static |-> FALSE,
              type |-> CallableType(<<ARG_POS>> \o [i \in DOMAIN args |-> args[i].kind],
                                    <<self_type>> \o [i \in DOMAIN args |-> args[i].type],
                                    return_type),
              plugin_generated |-> TRUE]
        ELSE names[n]]

RECURSIVE ApplyCalls(_, _)
ApplyCalls(chain, todo) ==
    IF todo = {} THEN chain
    ELSE LET c == CHOOSE x \in todo : TRUE
         IN ApplyCalls([chain EXCEPT ![c.cls] =
                            add_method_to_class(@, c.name, c.args, c.ret_type)],
                       todo \ {c})

----------------------------------------------------------------------------
\* Inputs

Versions == {<<2, 7>>, <<3, 0>>, <<3, 8>>}

KnownFunc == FuncItem(FALSE, CallableType(<<ARG_POS, ARG_POS>>, <<self_type, int_type>>, bool_type))
KnownStatic == FuncItem(TRUE, CallableType(<<ARG_POS>>, <<str_type>>,
                                           UnboundType(<<"b", "o", "o", "l">>)))
KnownVar == Var(FALSE, TypeAliasType(CallableType(<<ARG_POS, ARG_OPT>>,
                                                  <<self_type, TypeVarType(1)>>, int_type)))
UntypedFunc == FuncItem(FALSE, NoneVal)
PlainVar == Var(FALSE, int_type)

\* the declarations a class of the initial MRO may hold under a name
DeclNames == {"KnownFunc", "KnownStatic", "KnownVar", "UntypedFunc", "PlainVar", "Decorator"}

DeclOf(d) ==
    CASE d = "KnownFunc" -> KnownFunc
      [] d = "KnownStatic" -> KnownStatic
      [] d = "KnownVar" -> KnownVar
      [] d = "UntypedFunc" -> UntypedFunc
      [] d = "PlainVar" -> PlainVar
      [] d = "Decorator" -> Decorator

Sites(len) == (1 .. len) \X ORDERING_METHODS

\* the MRO in which the sites of DOMAIN f hold the declarations f names
ChainOf(len, f) ==
    [i \in 1 .. len |->
        [n \in {m \in ORDERING_METHODS : <<i, m>> \in DOMAIN f} |-> DeclOf(f[<<i, n>>])]]

\* an MRO of at most MaxMro classes holding at most MaxDecls declarations, or
\* a class that declares all four methods itself
InitMro ==
    \/ \E len \in 2 .. MaxMro :
          \E S \in {T \in SUBSET Sites(len) : Cardinality(T) <= MaxDecls} :
             \E f \in [S -> DeclNames] : mro = ChainOf(len, f)
    \/ \E g \in [ORDERING_METHODS -> DeclNames] :
          mro = <<[n \in ORDERING_METHODS |-> DeclOf(g[n])], EmptyDict>>

IdleMethod == MethodInfo(FALSE, CallableType(<<>>, <<>>, bool_type))
NotRun == [tag |-> "NotRun"]

Init ==
    /\ python_version \in Versions
    /\ InitMro
    /\ before = <<>>
    /\ scanned = FALSE
    /\ comparison_methods = EmptyDict
    /\ root = NoRoot
    /\ calls = EmptyBag
    /\ fails = <<>>
    /\ method = IdleMethod
    /\ other_arg = NotRun

Callback ==
    LET run == CallbackRun(python_version, mro) IN
    /\ before' = mro
    /\ scanned' = run.scanned
    /\ comparison_methods' = run.cm
    /\ root' = run.root
    /\ calls' = run.calls
    /\ fails' = run.fails
    /\ mro' = ApplyCalls(mro, BagToSet(run.calls))
    /\ UNCHANGED <<python_version, method, other_arg>>

Next == Callback

Spec == Init /\ [][Next]_vars


----------------------------------------------------------------------------
\* _analyze_class on its own: the scan of an MRO

InitAnalyze ==
    /\ python_version = <<3, 8>>
    /\ InitMro
    /\ before = <<>>
    /\ scanned = FALSE
    /\ comparison_methods = EmptyDict
    /\ root = NoRoot
    /\ calls = EmptyBag
    /\ fails = <<>>
    /\ method = IdleMethod
    /\ other_arg = NotRun

AnalyzeClass ==
    /\ scanned' = TRUE
    /\ comparison_methods' = analyze_class(mro)
    /\ UNCHANGED <<python_version, mro, before, root, calls, fails, method, other_arg>>

NextAnalyze == AnalyzeClass

SpecAnalyze == InitAnalyze /\ [][NextAnalyze]_vars

----------------------------------------------------------------------------
\* _find_other_type on its own: every signature of at most MaxArgs parameters,
\* the parameter at position i having the type TypeVarType(i)

InitFind ==
    /\ python_version = <<3, 8>>
    /\ mro = <<EmptyDict, EmptyDict>>
    /\ before = <<>>
    /\ scanned = FALSE
    /\ comparison_methods = EmptyDict
    /\ root = NoRoot
    /\ calls = EmptyBag
    /\ fails = <<>>
    /\ \E len \in 0 .. MaxArgs :
         \E kinds \in [1 .. len -> ArgKinds] :
            \E static \in BOOLEAN :
               method = MethodInfo(static,
                           CallableType(kinds, [i \in 1 .. len |-> TypeVarType(i)], bool_type))
    /\ other_arg = NotRun

FindOtherType ==
    /\ other_arg' = find_other_type(method)
    /\ UNCHANGED <<python_version, mro, before, scanned, comparison_methods, root,
                   calls, fails, method>>

NextFind == FindOtherType

SpecFind == InitFind /\ [][NextFind]_vars

----------------------------------------------------------------------------
\* The callback on a class whose own methods declare every kind of return type

Chars(s) ==
    CASE s = "bool" -> <<"b", "o", "o", "l">>
      [] s = "builtins.bool" -> <<"b", "u", "i", "l", "t", "i", "n", "s", ".", "b", "o", "o", "l">>
      [] s = "bool.x" -> <<"b", "o", "o", "l", ".", "x">>
      [] s = "xbool" -> <<"x", "b", "o", "o", "l">>
      [] s = "int" -> <<"i", "n", "t">>

RetNames == {"bool_type", "int_type", "alias", "any", "bool", "builtins.bool",
             "bool.x", "xbool", "int"}

RetOf(r) ==
    CASE r = "bool_type" -> bool_type
      [] r = "int_type" -> int_type
      [] r = "alias" -> TypeAliasType(bool_type)
      [] r = "any" -> AnyType(explicit)
      [] OTHER -> UnboundType(Chars(r))

MethodReturning(r) ==
    FuncItem(FALSE, CallableType(<<ARG_POS, ARG_POS>>, <<self_type, int_type>>, RetOf(r)))

InitRet ==
    /\ python_version \in Versions
    /\ \E S \in SUBSET ORDERING_METHODS :
         \E f \in [S -> RetNames] :
            mro = <<[n \in S |-> MethodReturning(f[n])], EmptyDict>>
    /\ before = <<>>
    /\ scanned = FALSE
    /\ comparison_methods = EmptyDict
    /\ root = NoRoot
    /\ calls = EmptyBag
    /\ fails = <<>>
    /\ method = IdleMethod
    /\ other_arg = NotRun

SpecRet == InitRet /\ [][Next]_vars

----------------------------------------------------------------------------
\* Vocabulary of the properties: what a run found and what it did

Ran == before # <<>>

\* the analysis mode is supported: its major version is not below 3
Supported == python_version[1] >= 3

\* the classes of a chain, the last (object) excluded, that declare a name
Declaring(chain, n) == {i \in 1 .. Len(chain) - 1 : n \in DOMAIN chain[i]}

Closest(chain, n) ==
    CHOOSE i \in Declaring(chain, n) : \A j \in Declaring(chain, n) : i <= j

\* the node is a function with a callable type, or a variable whose type is
\* callable, possibly through an alias
Analyzable(node) ==
    \/ node.kind = "FuncItem" /\ node.type.tag = "Callable"
    \/ node.kind = "Var" /\ node.type.tag = "Callable"
    \/ node.kind = "Var" /\ node.type.tag = "Alias" /\ node.type.target.tag = "Callable"

ExpectedEntry(node) ==
    IF ~Analyzable(node) THEN NoneVal
    ELSE [is_static |-> node.is_static,
          type |-> IF node.type.tag = "Alias" THEN node.type.target ELSE node.type]

Absent(chain, n) == Declaring(chain, n) = {}
Known(chain, n) == ~Absent(chain, n) /\ Analyzable(chain[Closest(chain, n)][n])
Unanalyzable(chain, n) == ~Absent(chain, n) /\ ~Analyzable(chain[Closest(chain, n)][n])

Inserted(n) == \E c \in BagToSet(calls) : c.name = n

\* the class's own table holds under n what it held before the run
Untouched(n) ==
    /\ n \in DOMAIN mro[1] <=> n \in DOMAIN before[1]
    /\ n \in DOMAIN before[1] => mro[1][n] = before[1][n]

\* fixed preference order of the four names
Rank(n) ==
    CASE n = "__lt__" -> 1 [] n = "__le__" -> 2 [] n = "__gt__" -> 3 [] n = "__ge__" -> 4

Diagnosed(msg) == \E i \in DOMAIN fails : fails[i] = msg

----------------------------------------------------------------------------
\* C1: in a supported mode, when the chain yields at least one Known entry,
\* every operator that is not Known (Absent or Unanalyzable) is inserted, all
\* inserted operators carry the same single operand type and the same return
\* type, and no Known operator is inserted or overwritten.
C1_TotalOrderingCompleted ==
    (Ran /\ Supported /\ \E n \in ORDERING_METHODS : Known(before, n)) =>
        /\ \A n \in ORDERING_METHODS : ~Known(before, n) => Inserted(n)
        /\ \A c, d \in BagToSet(calls) :
              Len(c.args) = 1 /\ c.args = d.args /\ c.ret_type = d.ret_type
        /\ \A n \in ORDERING_METHODS : Known(before, n) => ~Inserted(n) /\ Untouched(n)

\* C2: over a non-empty map the root is a Known entry whenever the map holds
\* one, is the earliest of __lt__, __le__, __gt__, __ge__ among the entries
\* of its analyzability, and is Unanalyzable only when every entry is.
C2_RootPrefersKnown ==
    (Ran /\ scanned /\ DOMAIN comparison_methods # {}) =>
        /\ root \in DOMAIN comparison_methods
        /\ (\E n \in DOMAIN comparison_methods : comparison_methods[n] # NoneVal)
              => comparison_methods[root] # NoneVal
        /\ \A n \in DOMAIN comparison_methods :
              ((comparison_methods[n] = NoneVal) <=> (comparison_methods[root] = NoneVal))
                 => Rank(root) <= Rank(n)
        /\ comparison_methods[root] = NoneVal
              => \A n \in DOMAIN comparison_methods : comparison_methods[n] = NoneVal

\* C3: after the scan, a name has an entry exactly when a class of the chain
\* other than the last declares it, and the entry is the one of the closest
\* such class, analyzable or not; the last class never gives an entry.
C3_Shadowing ==
    scanned =>
        \A n \in ORDERING_METHODS :
            /\ n \in DOMAIN comparison_methods <=> ~Absent(mro, n)
            /\ ~Absent(mro, n) =>
                  comparison_methods[n] = ExpectedEntry(mro[Closest(mro, n)][n])

\* a closer Unanalyzable declaration has shadowed a farther Known one
C3_Witness ==
    /\ scanned
    /\ \E n \in ORDERING_METHODS :
          /\ n \in DOMAIN comparison_methods
          /\ comparison_methods[n] = NoneVal
          /\ \E j \in Declaring(mro, n) : j > Closest(mro, n) /\ Analyzable(mro[j][n])

\* C4: when the selected root is Unanalyzable the run inserts no method and
\* emits no diagnostic.
C4_UnanalyzableRootIsSilent ==
    (Ran /\ root # NoRoot /\ comparison_methods[root] = NoneVal) =>
        calls = EmptyBag /\ fails = <<>> /\ mro = before

C4_Witness ==
    /\ Ran /\ root # NoRoot /\ comparison_methods[root] = NoneVal
    /\ \E n \in ORDERING_METHODS : ~Absent(before, n)

\* C5: in a supported mode the 'no ordering operation' diagnostic is emitted
\* exactly when no class of the scanned chain declares any of the four; then
\* it is the only diagnostic and nothing is inserted; a run that inserts a
\* member emits no diagnostic.
C5_NoOrderingDiagnostic ==
    Ran =>
        /\ Supported =>
              /\ Diagnosed(NoOrderingMsg) <=> \A n \in ORDERING_METHODS : Absent(before, n)
              /\ Diagnosed(NoOrderingMsg) =>
                    fails = <<NoOrderingMsg>> /\ calls = EmptyBag /\ mro = before
        /\ calls # EmptyBag => fails = <<>>

\* the diagnostic was emitted for a chain whose last class does declare one
C5_Witness ==
    /\ Ran /\ Supported /\ fails = <<NoOrderingMsg>>
    /\ \E n \in ORDERING_METHODS : n \in DOMAIN before[Len(before)]

\* C6: in an unsupported mode (version below 3) the run emits the
\* unsupported-mode diagnostic alone, scans nothing and inserts nothing,
\* whatever the classes declare.
C6_GateFirst ==
    (Ran /\ ~Supported) =>
        /\ fails = <<UnsupportedMsg>>
        /\ ~Diagnosed(NoOrderingMsg)
        /\ ~scanned
        /\ calls = EmptyBag
        /\ mro = before

\* the gate stopped a run on a class that has a Known method
C6_Witness ==
    /\ Ran /\ ~Supported
    /\ \E n \in ORDERING_METHODS : Known(before, n)

\* C7: _find_other_type returns the type of the first parameter that is
\* either positional (required or optional) with exactly `expected`
\* positional parameters before it, or of a kind other than positional and
\* variadic-keyword; the Any marker when there is none.
RefPositional(k) == k = ARG_POS \/ k = ARG_OPT

RefCandidates(m) ==
    LET kinds == m.type.arg_kinds
        expected == IF m.is_static THEN 0 ELSE 1
    IN {i \in 1 .. Len(kinds) :
          \/ /\ RefPositional(kinds[i])
             /\ Cardinality({j \in 1 .. i - 1 : RefPositional(kinds[j])}) = expected
          \/ ~RefPositional(kinds[i]) /\ kinds[i] # ARG_STAR2}

RefOtherType(m) ==
    IF RefCandidates(m) = {} THEN AnyType(implementation_artifact)
    ELSE m.type.arg_types[CHOOSE i \in RefCandidates(m) : \A j \in RefCandidates(m) : i <= j]

C7_FindOtherType ==
    other_arg # NotRun =>
        /\ other_arg = RefOtherType(method)
        /\ (method.is_static /\ method.type.arg_kinds = <<ARG_POS>>)
              => other_arg = method.type.arg_types[1]
        /\ (~method.is_static /\ method.type.arg_kinds = <<ARG_POS, ARG_POS>>)
              => other_arg = method.type.arg_types[2]
        /\ (~method.is_static /\ method.type.arg_kinds = <<ARG_POS>>)
              => other_arg = AnyType(implementation_artifact)

\* a static method (x: T) gave T
C7_Witness ==
    /\ other_arg # NotRun
    /\ method.is_static
    /\ method.type.arg_kinds = <<ARG_POS>>
    /\ other_arg = method.type.arg_types[1]

\* C8: the return type of every synthesized operator is boolean exactly when
\* the root's declared return type is the boolean type or an unbound name
\* whose last dotted component is 'bool'; otherwise it is the Any marker.
EndsWithBool(s) ==
    /\ Len(s) >= 4
    /\ SubSeq(s, Len(s) - 3, Len(s)) = <<"b", "o", "o", "l">>
    /\ Len(s) > 4 => s[Len(s) - 4] = "."

RootReturnsBool ==
    LET declared == comparison_methods[root].type.ret_type
    IN \/ declared = Instance("builtins.bool")
       \/ declared.tag = "Unbound" /\ EndsWithBool(declared.name)

C8_ReturnType ==
    (Ran /\ calls # EmptyBag) =>
        \A c \in BagToSet(calls) :
            /\ c.ret_type = Instance("builtins.bool") <=> RootReturnsBool
            /\ ~RootReturnsBool => c.ret_type = AnyType(implementation_artifact)

\* methods were synthesized after a root declared with a dotted unbound name
C8_Witness ==
    /\ Ran /\ calls # EmptyBag
    /\ comparison_methods[root].type.ret_type.tag = "Unbound"
    /\ Len(comparison_methods[root].type.ret_type.name) > 4
    /\ RootReturnsBool

\* C9 as stated: a run on a class for which all four operators are already
\* present inserts nothing and emits no diagnostic, and leaves the member
\* table as it was.
AllFourPresent(chain) == \A n \in ORDERING_METHODS : ~Absent(chain, n)

C9_Original ==
    (Ran /\ AllFourPresent(before)) =>
        calls = EmptyBag /\ fails = <<>> /\ mro = before

\* C9 as amended: the same, in a supported mode.
C9_IdempotentWhenSupported ==
    (Ran /\ Supported /\ AllFourPresent(before)) =>
        calls = EmptyBag /\ fails = <<>> /\ mro = before

\* a second run, on a class completed by a first run's insertions
C9_Witness ==
    /\ Ran /\ Supported /\ AllFourPresent(before)
    /\ \E n \in DOMAIN before[1] : before[1][n].plugin_generated
    /\ calls = EmptyBag

\* C10: add_method_to_class is called at most once per name, only for the
\* four names, on the class under analysis, with one required-positional
\* parameter; nothing else is written.
C10_InsertionsOnly ==
    Ran =>
        /\ \A c \in BagToSet(calls) :
              /\ CopiesIn(c, calls) = 1
              /\ c.name \in ORDERING_METHODS
              /\ c.cls = 1
              /\ Len(c.args) = 1
              /\ c.args[1].kind = ARG_POS
              /\ \A d \in BagToSet(calls) : d.name = c.name => d = c
        /\ Len(mro) = Len(before)
        /\ \A i \in 2 .. Len(mro) : mro[i] = before[i]
        /\ \A n \in DOMAIN mro[1] \cup DOMAIN before[1] : ~Inserted(n) => Untouched(n)

C10_Witness ==
    /\ Ran
    /\ \E c, d \in BagToSet(calls) : c # d
    /\ Len(mro) > 2

====
